---- MODULE Spec2Model ----
(***************************************************************************)
(* State-machine model of tem-vaga: the record store (model/tracker.py),   *)
(* the browser-session decorator (util/decorators.py), the listing scraper *)
(* and the apply bot with its form walker (service/linkedin.py), and the   *)
(* two commands that drive them (job_app.py).                              *)
(*                                                                         *)
(* Python's None is the string "None".  A row's primary key is its index   *)
(* in the table's sequence (autoincrement, rows are never deleted).        *)
(***************************************************************************)
EXTENDS Naturals, Integers, Sequences, FiniteSets, TLC

\* ------------------------------------------------------------------ bounds
\* listing ids the results page can expose
MaxListings == 1
\* rows of scrape_jobs (each scrape command inserts one)
MaxScrapes == 2
\* job cards on one results page
MaxCards == 1
\* db_update calls per behaviour in the record-store specification
MaxDbCalls == 3
\* calls of a wrapped function per behaviour in the wrapper specification
MaxWrapCalls == 3

ListingIds == 1..MaxListings

None == "None"

\* ------------------------------------------------------------ record store
Merge_keep_old(a, b) ==
  [k \in (DOMAIN a) \cup (DOMAIN b) |-> IF k \in DOMAIN a THEN a[k] ELSE b[k]]

\* b's entries laid over a's: {**a, **b}, and setattr of b's entries on a
Merge(a, b) ==
  [k \in (DOMAIN a) \cup (DOMAIN b) |-> IF k \in DOMAIN b THEN b[k] ELSE a[k]]

\* __init__ parameters without a default (MappedAsDataclass fields with no
\* default, default_factory or init=False)
RequiredInit(cls) ==
  IF cls = "JobApplication"
    THEN {"scrape_job_id", "company_name", "job_title", "application_date",
          "status", "job_url", "job_details", "scrape_job"}
    ELSE {"job_application_id", "page_number", "form_page_title", "form_data"}

\* unique constraints of a table, each a set of columns
UniqueKeys(cls) ==
  IF cls = "JobApplication"
    THEN {{"job_url"}}
    ELSE {{"job_application_id", "page_number"}}

\* rows i # j of the table agree on every column of some unique constraint
ViolatesUnique(cls, table) ==
  \E i \in DOMAIN table : \E j \in DOMAIN table :
    /\ i # j
    /\ \E uk \in UniqueKeys(cls) :
         /\ uk \subseteq DOMAIN table[i]
         /\ uk \subseteq DOMAIN table[j]
         /\ \A k \in uk : table[i][k] = table[j][k]

\* session.add + commit + refresh of a pending table; the commit fails on a
\* unique-constraint violation and the stored table keeps its old contents
db_sync(cls, old, new) ==
  IF ViolatesUnique(cls, new)
    THEN [table |-> old, err |-> "IntegrityError", op |-> "none", row |-> 0]
    ELSE [table |-> new, err |-> "none", op |-> "synced", row |-> 0]

\* rows selected by filter_by(**match_keys)
Matching(table, match_keys) ==
  {i \in DOMAIN table :
     \A k \in DOMAIN match_keys :
        k \in DOMAIN table[i] /\ table[i][k] = match_keys[k]}

db_update_always_create(cls, table, match_keys, update_data) ==
  LET new_record_data == Merge(match_keys, update_data)
  IN IF ~(RequiredInit(cls) \subseteq DOMAIN new_record_data)
       THEN [table |-> table, err |-> "TypeError", op |-> "none", row |-> 0]
       ELSE LET r == db_sync(cls, table, Append(table, new_record_data))
            IN [r EXCEPT !.op = IF r.err = "none" THEN "insert" ELSE "none",
                         !.row = IF r.err = "none" THEN Len(table) + 1 ELSE 0]

db_update_keeps_existing(cls, table, match_keys, update_data) ==
  LET found == Matching(table, match_keys)
  IN IF found # {}
       THEN [table |-> table, err |-> "none", op |-> "update",
             row |-> CHOOSE x \in found : TRUE]
       ELSE db_update_always_create(cls, table, match_keys, update_data)

\* DBOperator.db_update: update the row found by match_keys, else create one
db_update(cls, table, match_keys, update_data) ==
  LET found == Matching(table, match_keys)
  IN IF Cardinality(found) > 1
       THEN [table |-> table, err |-> "MultipleResultsFound", op |-> "none", row |-> 0]
     ELSE IF found # {}
       THEN LET i == CHOOSE x \in found : TRUE
                r == db_sync(cls, table,
                             [table EXCEPT ![i] = Merge(table[i], update_data)])
            IN [r EXCEPT !.op = IF r.err = "none" THEN "update" ELSE "none",
                         !.row = IF r.err = "none" THEN i ELSE 0]
     ELSE LET new_record_data == Merge(match_keys, update_data)
          IN IF ~(RequiredInit(cls) \subseteq DOMAIN new_record_data)
               THEN [table |-> table, err |-> "TypeError", op |-> "none", row |-> 0]
               ELSE LET r == db_sync(cls, table, Append(table, new_record_data))
                    IN [r EXCEPT !.op = IF r.err = "none" THEN "insert" ELSE "none",
                                 !.row = IF r.err = "none" THEN Len(table) + 1 ELSE 0]


\* --------------------------------------------------------------- the state
VARIABLES
  scrape_jobs,            \* table scrape_jobs
  linkedin_scrapes,       \* table linkedin_scrapes
  job_applications,       \* table job_applications
  application_form_pages, \* table application_form_pages
  cmd,                    \* the command in progress: "none", "scrape", "apply"
  pc,                     \* its position
  error,                  \* the exception that left the command, or "none"
  browser,                \* "none", "open", "closed" (this command's browser)
  closes,                 \* browser.close() calls of this command
  func,                   \* the wrapped function: "idle", "running", "returned", "raised"
  scrape_job,             \* get_jobs: id of its ScrapeJob
  job_links,              \* get_jobs: listing ids found, in dict order
  link_i,                 \* get_jobs: position in job_links
  job_cards,              \* _get_job_links: the job cards read from the results page
  applications,           \* apply_to_jobs: ids of the applications to process
  app_i,                  \* apply_to_jobs: position in applications
  applied_tags_count,     \* _handle_job: "Applied" markers counted, -1 before the count
  handled,                \* _handle_job: "none", "running", "returned", "raised"
  walker,                 \* _form_recursion: "idle", "running", "returned", "raised"
  depth,                  \* _form_recursion: its depth argument
  form,                   \* the form page the walker is on, as the site shows it
  clicks,                 \* controls acted on for the current application
  db_rows,                \* record-store specification: a job_applications table
  db_result,              \* record-store specification: the last db_update's outcome
  db_calls,               \* record-store specification: db_update calls made
  wrap_pc,                \* wrapper of returns_exception_on_error: its position
  wrap_args,              \* wrapper: the arguments it was called with
  wrap_func,              \* wrapper: how the call of func inside the try ended
  wrap_out,               \* wrapper: what the caller got, a value or a raise
  wrap_calls              \* wrapper: calls made

store == <<scrape_jobs, linkedin_scrapes, job_applications, application_form_pages>>
deco == <<browser, closes, func>>
scraper == <<scrape_job, job_links, link_i, job_cards>>
bot == <<applications, app_i, applied_tags_count, handled, walker, depth, form, clicks>>
dbvars == <<db_rows, db_result, db_calls>>
wrapvars == <<wrap_pc, wrap_args, wrap_func, wrap_out, wrap_calls>>
vars == <<store, cmd, pc, error, deco, scraper, bot, dbvars, wrapvars>>

\* --------------------------------------------------------------- the site
\* the canonical listing URL built from a listing id
FullLink(current_job_id) == <<"currentJobId", current_job_id>>

\* a job card's href: absent, not under /jobs/view, or /jobs/view/<id>/
Cards ==
  {[kind |-> "none", id |-> 0], [kind |-> "other", id |-> 0]}
    \cup [kind : {"view"}, id : ListingIds]

CardLists == UNION {[1..n -> Cards] : n \in 0..MaxCards}

NoPage ==
  [raw_title |-> <<>>, submit |-> FALSE, review |-> FALSE,
   cache_file |-> "missing", labels |-> <<>>, response |-> None]

\* question_cache.json as open() and json.load meet it
CacheFiles == {"missing", "empty", "filled"}

\* A form page as the site shows it: raw_title is the first string of the
\* title locator as tokens (<<>> when there is no title element), cache_file
\* tells whether question_cache.json is missing, empty or filled, labels
\* are the visible labels' first lines and response is what the answer
\* generator gives for each of them; submit and review tell which controls
\* the navigation step finds (FALSE until it has looked).
QuestionPages ==
  [raw_title : {<<>>, <<"Additional Questions">>}, submit : {FALSE}, review : {FALSE},
   cache_file : CacheFiles, labels : {<<"Yes", "No">>, <<"Upload", "City">>},
   response : {"Yes", "Maybe"}]

\* static and privacy pages
PlainPages ==
  [raw_title : {<<"Privacy policy">>, <<"\n", "Resume", "  ">>}, submit : {FALSE},
   review : {FALSE}, cache_file : {"missing"}, labels : {<<>>}, response : {None}]

FormPages == QuestionPages \cup PlainPages

JobDetailsTexts == {"about the job"}

\* ------------------------------------------------------------ initial store
NewApplication(sj, link) ==
  [scrape_job |-> sj, scrape_job_id |-> sj, status |-> "Scraped",
   company_name |-> None, job_title |-> None, application_date |-> None,
   job_url |-> link, job_details |-> None]

EmptyStore ==
  [scrape_jobs |-> <<>>, linkedin_scrapes |-> <<>>, job_applications |-> <<>>,
   application_form_pages |-> <<>>]

\* tracker.db as earlier runs may have left it (create_all keeps the rows):
\* one scrape that found two listings, and the FormPage row of a walk of the
\* first one
SeededStore ==
  [scrape_jobs |-> <<[platform |-> "LinkedIn"]>>,
   linkedin_scrapes |-> <<[scrape_job_id |-> 1, easy_apply |-> TRUE]>>,
   job_applications |-> <<NewApplication(1, FullLink(1)), NewApplication(1, FullLink(2))>>,
   application_form_pages |->
     <<[job_application_id |-> 1, page_number |-> 0,
        form_page_title |-> <<"Contact info">>, form_data |-> None]>>]

InitialStores == {EmptyStore, SeededStore}

NoResult == [table |-> <<>>, err |-> "none", op |-> "none", row |-> 0]

\* a Python object: its class and its identity
NoObject == [cls |-> "none", id |-> 0]

NoOutcome == [kind |-> "none", value |-> NoObject]

InitWrapper ==
  /\ wrap_pc = "idle" /\ wrap_args = <<>>
  /\ wrap_func = NoOutcome /\ wrap_out = NoOutcome /\ wrap_calls = 0

InitControl ==
  /\ cmd = "none" /\ pc = "idle" /\ error = "none"
  /\ browser = "none" /\ closes = 0 /\ func = "idle"
  /\ scrape_job = 0 /\ job_links = <<>> /\ link_i = 1 /\ job_cards = <<>>
  /\ applications = <<>> /\ app_i = 1 /\ applied_tags_count = -1
  /\ handled = "none" /\ walker = "idle" /\ depth = 0
  /\ form = NoPage /\ clicks = <<>>

Init ==
  /\ \E s \in InitialStores :
       /\ scrape_jobs = s.scrape_jobs
       /\ linkedin_scrapes = s.linkedin_scrapes
       /\ job_applications = s.job_applications
       /\ application_form_pages = s.application_form_pages
  /\ InitControl
  /\ db_rows = <<>> /\ db_result = NoResult /\ db_calls = 0
  /\ InitWrapper


\* ------------------------------------------------- playwright_browser_context
\* the finally block runs however the try block was left
RunsFinally_only_on_return(func_state) == func_state = "returned"

RunsFinally_never(func_state) == FALSE

RunsFinally(func_state) == TRUE

\* a command starts in a new process: nothing of the previous command is
\* left but the store; sj is get_jobs' ScrapeJob id, apps the applications
\* handed to apply_to_jobs
StartCommand(c, sj, apps) ==
  /\ pc = "idle"
  /\ cmd' = c /\ pc' = "launch" /\ error' = "none"
  /\ browser' = "none" /\ closes' = 0 /\ func' = "idle"
  /\ scrape_job' = sj /\ job_links' = <<>> /\ link_i' = 1 /\ job_cards' = <<>>
  /\ applications' = apps /\ app_i' = 1
  /\ applied_tags_count' = -1 /\ handled' = "none" /\ walker' = "idle"
  /\ depth' = 0 /\ form' = NoPage /\ clicks' = <<>>

\* p.chromium.launch: outside the try block, a failure leaves the command
PwLaunch(ok) ==
  /\ pc = "launch"
  /\ IF ok
       THEN browser' = "open" /\ pc' = "new_context" /\ error' = error
       ELSE browser' = browser /\ pc' = "idle" /\ error' = "PlaywrightError"
  /\ UNCHANGED <<store, cmd, closes, func, scraper, bot, dbvars, wrapvars>>

\* browser.new_context inside the try block, then the call of func
PwNewContext(ok) ==
  /\ pc = "new_context"
  /\ IF ok
       THEN /\ func' = "running" /\ error' = error
            /\ pc' = IF cmd = "scrape" THEN "job_search" ELSE "loop"
       ELSE func' = func /\ error' = "PlaywrightError" /\ pc' = "finally"
  /\ UNCHANGED <<store, cmd, browser, closes, scraper, bot, dbvars, wrapvars>>

\* the finally block, then the return of func's result or the re-raise
PwFinally ==
  /\ pc = "finally"
  /\ IF RunsFinally(func)
       THEN browser' = "closed" /\ closes' = closes + 1
       ELSE UNCHANGED <<browser, closes>>
  /\ pc' = IF error = "none" /\ cmd = "scrape" THEN "upsert" ELSE "idle"
  /\ form' = NoPage /\ clicks' = <<>>
  /\ UNCHANGED <<store, cmd, error, func, scraper, applications, app_i,
                 applied_tags_count, handled, walker, depth, dbvars, wrapvars>>

\* ----------------------------------------------------------------- scraper
RECURSIVE _get_job_links_any_href(_, _)
_get_job_links_any_href(cards, found) ==
  IF cards = <<>> THEN found
  ELSE LET card == Head(cards)
           seen == {found[i] : i \in DOMAIN found}
       IN _get_job_links_any_href(Tail(cards),
            IF card.id \notin seen THEN Append(found, card.id) ELSE found)

RECURSIVE _get_job_links(_, _)
\* the listing ids of the cards whose link starts with /jobs/view, in the
\* order a dict keeps them (first insertion)
_get_job_links(cards, found) ==
  IF cards = <<>> THEN found
  ELSE LET card == Head(cards)
           seen == {found[i] : i \in DOMAIN found}
       IN _get_job_links(Tail(cards),
            IF card.kind = "view" /\ card.id \notin seen
              THEN Append(found, card.id) ELSE found)

\* the scrape command: get_jobs saves one ScrapeJob and one LinkedInScrape
\* and goes on to the search
GetJobs(easy_apply) ==
  /\ Len(scrape_jobs) < MaxScrapes
  /\ StartCommand("scrape", Len(scrape_jobs) + 1, <<>>)
  /\ scrape_jobs' = Append(scrape_jobs, [platform |-> "LinkedIn"])
  /\ linkedin_scrapes' = Append(linkedin_scrapes,
        [scrape_job_id |-> Len(scrape_jobs) + 1, easy_apply |-> easy_apply])
  /\ UNCHANGED <<job_applications, application_form_pages, dbvars, wrapvars>>

\* _job_search: navigate, search, scroll, read the job cards
JobSearch(ok, cards) ==
  /\ pc = "job_search"
  /\ IF ok
       THEN /\ job_cards' = cards
            /\ job_links' = _get_job_links(cards, <<>>)
            /\ func' = "returned" /\ error' = error
       ELSE /\ job_cards' = job_cards /\ job_links' = job_links
            /\ func' = "raised" /\ error' = "PlaywrightError"
  /\ pc' = "finally"
  /\ UNCHANGED <<store, cmd, browser, closes, scrape_job, link_i, bot, dbvars, wrapvars>>

JobMatchKeys(job_link) == [job_url |-> job_link]

JobUpdateData_first_scrape(sj, job_link) ==
  [scrape_job |-> 1, scrape_job_id |-> 1, status |-> "Scraped",
   company_name |-> None, job_title |-> None, application_date |-> None,
   job_url |-> job_link, job_details |-> None]

JobUpdateData_status_none(sj, job_link) ==
  [scrape_job |-> sj, scrape_job_id |-> sj, status |-> None,
   company_name |-> None, job_title |-> None, application_date |-> None,
   job_url |-> job_link, job_details |-> None]

\* the update_data get_jobs passes for one link
JobUpdateData(sj, job_link) ==
  [scrape_job |-> sj, scrape_job_id |-> sj, status |-> "Scraped",
   company_name |-> None, job_title |-> None, application_date |-> None,
   job_url |-> job_link, job_details |-> None]

\* one iteration of get_jobs' loop over job_links
Upsert ==
  /\ pc = "upsert" /\ link_i <= Len(job_links)
  /\ LET job_link == FullLink(job_links[link_i])
         r == db_update("JobApplication", job_applications,
                        JobMatchKeys(job_link), JobUpdateData(scrape_job, job_link))
     IN /\ job_applications' = r.table
        /\ error' = r.err
        /\ IF r.err = "none"
             THEN link_i' = link_i + 1 /\ pc' = pc
             ELSE link_i' = link_i /\ pc' = "idle"
  /\ UNCHANGED <<scrape_jobs, linkedin_scrapes, application_form_pages, cmd, deco,
                 scrape_job, job_links, job_cards, bot, dbvars, wrapvars>>

\* get_jobs returns
UpsertDone ==
  /\ pc = "upsert" /\ link_i > Len(job_links)
  /\ pc' = "idle"
  /\ UNCHANGED <<store, cmd, error, deco, scraper, bot, dbvars, wrapvars>>


\* --------------------------------------------------------------------- bot
\* names bound at module level of service/linkedin.py (imports, def, class)
ModuleNames ==
  {"urlencode", "List", "Any", "BrowserContext", "Page",
   "playwright_browser_context", "ScrapeJob", "LinkedInScrape", "JobApplication",
   "DBOperator", "ApplicationFormPage", "_get_job_links", "JobScraper", "Bot"}

\* names _form_recursion binds itself (parameters and assignments)
FormRecursionLocals ==
  {"self", "depth", "form_page_title", "static_page_titles", "f", "question_cache",
   "all_form_questions", "all_responses", "raw_labels", "raw_labels_count",
   "dropdown_labels", "dropdown_questions", "raw_i", "raw_label",
   "submit_button_text", "review_button_text"}

Builtins == {"open", "print", "str", "range", "ValueError", "FileNotFoundError"}

\* does a read of this name inside _form_recursion find a binding
NameDefined(name) == name \in ModuleNames \cup FormRecursionLocals \cup Builtins

group_scraped_applications_by_platform_any_status(platform) ==
  LET ids == [i \in 1..Len(job_applications) |-> i]
      Test(i) ==
        /\ job_applications[i].scrape_job_id \in DOMAIN scrape_jobs
        /\ scrape_jobs[job_applications[i].scrape_job_id].platform = platform
  IN SelectSeq(ids, Test)

\* group_scraped_applications_by_platform()[platform]: ids of the rows with
\* status 'Scraped' joined to a ScrapeJob of that platform
group_scraped_applications_by_platform(platform) ==
  LET ids == [i \in 1..Len(job_applications) |-> i]
      Test(i) ==
        /\ job_applications[i].status = "Scraped"
        /\ job_applications[i].scrape_job_id \in DOMAIN scrape_jobs
        /\ scrape_jobs[job_applications[i].scrape_job_id].platform = platform
  IN SelectSeq(ids, Test)

\* application.scrape_job.linkedin_scrapes, as row ids in table order
LinkedinScrapesOf(row) ==
  LET ids == [i \in 1..Len(linkedin_scrapes) |-> i]
      Test(i) == linkedin_scrapes[i].scrape_job_id = row.scrape_job_id
  IN SelectSeq(ids, Test)

\* the eligibility check precedes the branch on the marker count
NotEasyApply_only_when_unapplied(easy_apply, count) == ~easy_apply /\ count = 0

NotEasyApply(easy_apply, count) == ~easy_apply

NoAppliedTag_always(count) == count >= 0

NoAppliedTag(count) == count = 0

DetailsUpdate_marks_applied(row, about_text) ==
  [row EXCEPT !.job_details = about_text, !.status = "Applied"]

DetailsUpdate_dropped(row, about_text) == row

\* self._current_application.job_details = about_text
DetailsUpdate(row, about_text) == [row EXCEPT !.job_details = about_text]

StatusAfterWalk_always(row, err) == [row EXCEPT !.status = "Applied"]

StatusAfterWalk_never(row, err) == row

\* the status assignment that ends _handle_job is reached only when nothing
\* raised before it
StatusAfterWalk(row, err) ==
  IF err = "none" THEN [row EXCEPT !.status = "Applied"] ELSE row

\* a control acted on: which one, and the label index for a form field
Act(ctl, i) == [ctl |-> ctl, i |-> i]

\* apply_scraped_jobs up to the call of apply_to_jobs
ApplyScrapedJobs ==
  /\ StartCommand("apply", 0, group_scraped_applications_by_platform("LinkedIn"))
  /\ UNCHANGED <<store, dbvars, wrapvars>>

\* _handle_job up to the call of _form_recursion, and to its end when the
\* form is not walked.  Result: the application's row, the exception raised
\* (or "none"), the marker count read, the controls clicked and whether the
\* walk starts.
handle_job(row, gotoOk, count, waitOk, about_text, clickOk) ==
  LET ls == LinkedinScrapesOf(row)
      out == [row |-> row, err |-> "none", count |-> count, clicks |-> <<>>,
              walk |-> FALSE]
  IN IF ~gotoOk
       THEN [out EXCEPT !.err = "PlaywrightError", !.count = -1]
     ELSE IF ls = <<>>
       THEN [out EXCEPT !.err = "IndexError"]
     ELSE IF NotEasyApply(linkedin_scrapes[ls[1]].easy_apply, count)
       THEN [out EXCEPT !.err = "ValueError"]
     ELSE IF NoAppliedTag(count)
       THEN IF ~waitOk
              THEN [out EXCEPT !.err = "PlaywrightError"]
            ELSE IF ~clickOk
              THEN [out EXCEPT !.row = DetailsUpdate(row, about_text),
                               !.err = "PlaywrightError"]
            ELSE [out EXCEPT !.row = DetailsUpdate(row, about_text),
                             !.clicks = <<Act("apply", 0)>>, !.walk = TRUE]
     ELSE [out EXCEPT !.row = StatusAfterWalk(row, "none")]

\* apply_to_jobs' loop body for the next application
HandleJob(gotoOk, count, waitOk, about_text, clickOk) ==
  /\ pc = "loop" /\ app_i <= Len(applications)
  /\ LET a == applications[app_i]
         r == handle_job(job_applications[a], gotoOk, count, waitOk, about_text, clickOk)
     IN /\ job_applications' = [job_applications EXCEPT ![a] = r.row]
        /\ applied_tags_count' = r.count
        /\ clicks' = r.clicks
        /\ error' = r.err
        /\ IF r.err # "none"
             THEN /\ handled' = "raised" /\ walker' = "idle" /\ func' = "raised"
                  /\ pc' = "finally" /\ app_i' = app_i
           ELSE IF r.walk
             THEN /\ handled' = "running" /\ walker' = "running" /\ func' = func
                  /\ pc' = "form_page" /\ app_i' = app_i
           ELSE /\ handled' = "returned" /\ walker' = "idle" /\ func' = func
                /\ pc' = "loop" /\ app_i' = app_i + 1
  /\ depth' = 0 /\ form' = NoPage
  /\ UNCHANGED <<scrape_jobs, linkedin_scrapes, application_form_pages, cmd,
                 browser, closes, scraper, applications, dbvars, wrapvars>>

\* apply_to_jobs returns after the last application
ApplyDone ==
  /\ pc = "loop" /\ app_i > Len(applications)
  /\ func' = "returned" /\ pc' = "finally"
  /\ UNCHANGED <<store, cmd, error, browser, closes, scraper, applications, app_i,
                 applied_tags_count, handled, walker, depth, form, clicks, dbvars, wrapvars>>


\* ------------------------------------------------------------- form walker
\* form_page_title[0].replace('\n','').replace('  ','') or "Unknown"
FormPageTitle(raw_title) ==
  LET Kept(t) == t \notin {"\n", "  "}
  IN IF raw_title = <<>> THEN <<"Unknown">> ELSE SelectSeq(raw_title, Kept)

static_page_titles == {<<"Contact info">>, <<"Resume">>, <<"Screening questions">>}

\* labels the page lists as dropdown questions
dropdown_questions == {"Country"}

FormPageMatchKeys(a, d) == [job_application_id |-> a, page_number |-> d]

RECURSIVE FillLoop(_, _, _, _)
\* the while loop over the labels; raw_i counts from 1 here
FillLoop(raw_i, labels, response, acts) ==
  IF raw_i > Len(labels) THEN [err |-> "none", acts |-> acts]
  ELSE LET raw_label == labels[raw_i]
       IN IF raw_label = "Upload"
            THEN FillLoop(raw_i + 1, labels, response, acts)
          ELSE IF raw_label = "Yes"
            THEN IF response = "Yes"
                   THEN FillLoop(raw_i + 2, labels, response,
                                 Append(acts, Act("click", raw_i)))
                 ELSE IF response = "No"
                   THEN FillLoop(raw_i + 2, labels, response,
                                 Append(acts, Act("click", raw_i + 1)))
                 ELSE [err |-> "ValueError", acts |-> acts]
          ELSE IF raw_label \in dropdown_questions
            THEN FillLoop(raw_i + 1, labels, response,
                          Append(acts, Act("select_option", raw_i)))
          ELSE FillLoop(raw_i + 1, labels, response,
                        Append(acts, Act("fill", raw_i)))

\* the try block that loads question_cache.json: open raises
\* FileNotFoundError, which is caught; json.load reads the name json, and
\* fails to decode an empty file
load_cache(cache_file) ==
  IF cache_file = "missing"
    THEN [err |-> "none", question_cache |-> "empty"]
  ELSE IF ~NameDefined("json")
    THEN [err |-> "NameError", question_cache |-> "unbound"]
  ELSE IF cache_file = "empty"
    THEN [err |-> "JSONDecodeError", question_cache |-> "unbound"]
  ELSE [err |-> "none", question_cache |-> "loaded"]

\* the branch for a page that is neither the privacy page nor static
dynamic_page(p) ==
  IF load_cache(p.cache_file).err # "none"
    THEN [err |-> load_cache(p.cache_file).err, acts |-> <<>>]
  ELSE IF ~(NameDefined("extract_form_questions") /\ NameDefined("page"))
    THEN [err |-> "NameError", acts |-> <<>>]
  ELSE IF ~(NameDefined("create_responses") /\ NameDefined("about_text")
            /\ NameDefined("applicant_data"))
    THEN [err |-> "NameError", acts |-> <<>>]
  ELSE FillLoop(1, p.labels, p.response, <<>>)

\* _form_recursion up to the navigation step: read the title, save the
\* FormPage record, dispatch on the title
form_page(table, a, d, p, agreeOk) ==
  LET form_page_title == FormPageTitle(p.raw_title)
      r == db_update("ApplicationFormPage", table, FormPageMatchKeys(a, d),
                     [form_page_title |-> form_page_title])
  IN IF r.err # "none"
       THEN [table |-> r.table, err |-> r.err, acts |-> <<>>]
     ELSE IF form_page_title = <<"Privacy policy">>
       THEN IF agreeOk
              THEN [table |-> r.table, err |-> "none", acts |-> <<Act("agree", 0)>>]
              ELSE [table |-> r.table, err |-> "PlaywrightError", acts |-> <<>>]
     ELSE IF form_page_title \notin static_page_titles
       THEN LET q == dynamic_page(p)
            IN [table |-> r.table, err |-> q.err, acts |-> q.acts]
     ELSE [table |-> r.table, err |-> "none", acts |-> <<>>]

\* the navigation step: Submit, else Review, else Continue and recurse
navigate(p) ==
  IF ~NameDefined("page")
    THEN [err |-> "NameError", acts |-> <<>>, next |-> "raise"]
  ELSE IF p.submit
    THEN [err |-> "none", acts |-> <<Act("submit", 0)>>, next |-> "return"]
  ELSE IF p.review
    THEN [err |-> "none", acts |-> <<Act("review", 0), Act("final_submit", 0)>>,
          next |-> "return"]
  ELSE IF ~NameDefined("form_recursion")
    THEN [err |-> "NameError", acts |-> <<Act("continue", 0)>>, next |-> "raise"]
  ELSE [err |-> "none", acts |-> <<Act("continue", 0)>>, next |-> "recurse"]

\* the walk ends: back in _handle_job and, when it raised, out of apply_to_jobs
EndWalk(a, err) ==
  /\ job_applications' =
       [job_applications EXCEPT ![a] = StatusAfterWalk(job_applications[a], err)]
  /\ error' = err
  /\ IF err = "none"
       THEN /\ walker' = "returned" /\ handled' = "returned" /\ func' = func
            /\ pc' = "loop" /\ app_i' = app_i + 1
       ELSE /\ walker' = "raised" /\ handled' = "raised" /\ func' = "raised"
            /\ pc' = "finally" /\ app_i' = app_i

\* _form_recursion on the page the site shows, up to the navigation step
FormPage(p, agreeOk) ==
  /\ pc = "form_page"
  /\ LET a == applications[app_i]
         r == form_page(application_form_pages, a, depth, p, agreeOk)
     IN /\ application_form_pages' = r.table
        /\ form' = p
        /\ clicks' = clicks \o r.acts
        /\ IF r.err # "none"
             THEN EndWalk(a, r.err)
             ELSE /\ pc' = "form_nav"
                  /\ UNCHANGED <<job_applications, error, walker, handled, func, app_i>>
  /\ UNCHANGED <<scrape_jobs, linkedin_scrapes, cmd, browser, closes, scraper,
                 applications, applied_tags_count, depth, dbvars, wrapvars>>

\* the navigation step of the page the walker is on; submit and review tell
\* which controls the page shows
FormNavigate(submit, review) ==
  /\ pc = "form_nav"
  /\ form' = [form EXCEPT !.submit = submit, !.review = review]
  /\ LET a == applications[app_i]
         r == navigate(form')
     IN /\ clicks' = clicks \o r.acts
        /\ IF r.next = "recurse"
             THEN /\ pc' = "form_page" /\ depth' = depth + 1
                  /\ UNCHANGED <<job_applications, error, walker, handled, func, app_i>>
             ELSE EndWalk(a, r.err) /\ depth' = depth
  /\ UNCHANGED <<scrape_jobs, linkedin_scrapes, application_form_pages, cmd, browser,
                 closes, scraper, applications, applied_tags_count, dbvars, wrapvars>>

\* ------------------------------------------------------------ specification
Next ==
  \/ \E easy_apply \in BOOLEAN : GetJobs(easy_apply)
  \/ \E ok \in BOOLEAN : PwLaunch(ok)
  \/ \E ok \in BOOLEAN : PwNewContext(ok)
  \/ \E ok \in BOOLEAN : \E cards \in CardLists : JobSearch(ok, cards)
  \/ PwFinally
  \/ Upsert
  \/ UpsertDone
  \/ ApplyScrapedJobs
  \/ \E gotoOk \in BOOLEAN : \E count \in 0..1 : \E waitOk \in BOOLEAN :
       \E about_text \in JobDetailsTexts : \E clickOk \in BOOLEAN :
         HandleJob(gotoOk, count, waitOk, about_text, clickOk)
  \/ ApplyDone
  \/ \E p \in FormPages : \E agreeOk \in BOOLEAN : FormPage(p, agreeOk)
  \/ \E submit \in BOOLEAN : \E review \in BOOLEAN : FormNavigate(submit, review)

Spec == Init /\ [][Next]_vars


\* -------------------------------------------- record-store specification
\* db_update called on a job_applications table with any match keys
JobTitles == {"Engineer", "Analyst", "Manager"}

DbMatchKeys ==
  {[job_url |-> FullLink(u)] : u \in ListingIds}
    \cup {[job_title |-> t] : t \in JobTitles}

DbUpdateData ==
  {[JobUpdateData(1, FullLink(u)) EXCEPT !.job_title = t, !.status = st] :
     u \in ListingIds, t \in JobTitles, st \in {"Scraped", "Applied"}}

DbUpdateCall(match_keys, update_data) ==
  /\ db_calls < MaxDbCalls
  /\ LET r == db_update("JobApplication", db_rows, match_keys, update_data)
     IN /\ db_rows' = r.table
        /\ db_result' = [r EXCEPT !.table = <<match_keys, update_data>>]
  /\ db_calls' = db_calls + 1
  /\ UNCHANGED <<store, cmd, pc, error, deco, scraper, bot, wrapvars>>

InitDb ==
  /\ scrape_jobs = <<>> /\ linkedin_scrapes = <<>>
  /\ job_applications = <<>> /\ application_form_pages = <<>>
  /\ InitControl
  /\ db_rows = <<>> /\ db_result = NoResult /\ db_calls = 0
  /\ InitWrapper

NextDb ==
  \E match_keys \in DbMatchKeys : \E update_data \in DbUpdateData :
    DbUpdateCall(match_keys, update_data)

SpecDb == InitDb /\ [][NextDb]_vars

\* ------------------------------------- the scrape command on an empty store
\* results pages with more cards and more listing ids than the commands'
\* specification draws, so that cards share ids and pages mix link kinds
ScrapeCards ==
  {[kind |-> "none", id |-> 0], [kind |-> "other", id |-> 0]}
    \cup [kind : {"view"}, id : 1..(MaxListings + 1)]

ScrapeCardLists == UNION {[1..n -> ScrapeCards] : n \in 0..(MaxCards + 2)}

\* get_jobs invoked while job_applications has no row
GetJobsEmptyStore(easy_apply) ==
  /\ job_applications = <<>>
  /\ GetJobs(easy_apply)

InitScrape ==
  /\ scrape_jobs = <<>> /\ linkedin_scrapes = <<>>
  /\ job_applications = <<>> /\ application_form_pages = <<>>
  /\ InitControl
  /\ db_rows = <<>> /\ db_result = NoResult /\ db_calls = 0
  /\ InitWrapper

NextScrape ==
  \/ \E easy_apply \in BOOLEAN : GetJobsEmptyStore(easy_apply)
  \/ \E ok \in BOOLEAN : PwLaunch(ok)
  \/ \E ok \in BOOLEAN : PwNewContext(ok)
  \/ \E ok \in BOOLEAN : \E cards \in ScrapeCardLists : JobSearch(ok, cards)
  \/ PwFinally
  \/ Upsert
  \/ UpsertDone

SpecScrape == InitScrape /\ [][NextScrape]_vars

\* ------------------------------------------------ returns_exception_on_error
\* classes derived from Exception, and classes derived from BaseException only
ExceptionClasses == {"Exception", "ValueError", "KeyError"}

BaseOnlyClasses == {"KeyboardInterrupt", "SystemExit"}

ResultClasses == {"NoneType", "int", "str"}

WrapArgs == {<<>>, <<1>>, <<1, 2>>}

Caught_only_ValueError(cls) == cls = "ValueError"

\* except Exception: the clause matches instances of Exception's subclasses
Caught(cls) == cls \in ExceptionClasses

\* the caller calls the wrapper, which enters its try block
WrapperCall(args) ==
  /\ wrap_pc = "idle" /\ wrap_calls < MaxWrapCalls
  /\ wrap_pc' = "try" /\ wrap_args' = args /\ wrap_calls' = wrap_calls + 1
  /\ wrap_func' = NoOutcome /\ wrap_out' = NoOutcome
  /\ UNCHANGED <<store, cmd, pc, error, deco, scraper, bot, dbvars>>

\* func(*args, **kwargs) completes with a result or raises a new instance
FuncCall(kind, cls) ==
  /\ wrap_pc = "try"
  /\ kind = "return" => cls \in ResultClasses
  /\ kind = "raise" => cls \in ExceptionClasses \cup BaseOnlyClasses
  /\ wrap_func' = [kind |-> kind, value |-> [cls |-> cls, id |-> wrap_calls]]
  /\ wrap_pc' = "after_func"
  /\ UNCHANGED <<store, cmd, pc, error, deco, scraper, bot, dbvars,
                 wrap_args, wrap_out, wrap_calls>>

\* return result
WrapperReturnsResult ==
  /\ wrap_pc = "after_func" /\ wrap_func.kind = "return"
  /\ wrap_out' = [kind |-> "returned", value |-> wrap_func.value]
  /\ wrap_pc' = "idle"
  /\ UNCHANGED <<store, cmd, pc, error, deco, scraper, bot, dbvars,
                 wrap_args, wrap_func, wrap_calls>>

\* except Exception as e: return e; anything else leaves the wrapper raised
WrapperExcept ==
  /\ wrap_pc = "after_func" /\ wrap_func.kind = "raise"
  /\ wrap_out' = IF Caught(wrap_func.value.cls)
                   THEN [kind |-> "returned", value |-> wrap_func.value]
                   ELSE [kind |-> "raised", value |-> wrap_func.value]
  /\ wrap_pc' = "idle"
  /\ UNCHANGED <<store, cmd, pc, error, deco, scraper, bot, dbvars,
                 wrap_args, wrap_func, wrap_calls>>

InitWrap ==
  /\ scrape_jobs = <<>> /\ linkedin_scrapes = <<>>
  /\ job_applications = <<>> /\ application_form_pages = <<>>
  /\ InitControl
  /\ db_rows = <<>> /\ db_result = NoResult /\ db_calls = 0
  /\ InitWrapper

NextWrap ==
  \/ \E args \in WrapArgs : WrapperCall(args)
  \/ \E kind \in {"return", "raise"} :
       \E cls \in ResultClasses \cup ExceptionClasses \cup BaseOnlyClasses :
         FuncCall(kind, cls)
  \/ WrapperReturnsResult
  \/ WrapperExcept

SpecWrap == InitWrap /\ [][NextWrap]_vars

\* ------------------------------------------------------------------ claims
\* the application _handle_job is working on
Current == applications[app_i]

\* the step taken is _handle_job's (the only one enabled at the loop head
\* while applications remain)
HandleJobStep ==
  /\ pc = "loop" /\ app_i <= Len(applications)
  /\ (pc' # pc \/ app_i' # app_i)

\* the first scrape record of the application says easy apply
Eligible(a) ==
  LET ls == LinkedinScrapesOf(job_applications[a])
  IN ls # <<>> /\ linkedin_scrapes[ls[1]].easy_apply

Ineligible(a) ==
  LET ls == LinkedinScrapesOf(job_applications[a])
  IN ls # <<>> /\ ~linkedin_scrapes[ls[1]].easy_apply

Clicked(ctls) == \E i \in DOMAIN clicks : clicks[i].ctl \in ctls

NavigationControls == {"submit", "review", "final_submit", "continue"}

\* C1: a persisted status turns "Applied" only for the application being
\* handled, and only when its Applied marker was counted or the form walk
\* returned; whenever the walk has raised, the application it was walking is
\* still "Scraped".
C1_AppliedOnlyByMarkerOrSuccessfulWalk ==
  [][/\ \A a \in DOMAIN job_applications :
          (job_applications[a].status # "Applied"
             /\ job_applications'[a].status = "Applied")
          => /\ cmd = "apply" /\ pc \in {"loop", "form_page", "form_nav"}
             /\ a = Current
             /\ (applied_tags_count' > 0 \/ walker' = "returned")
     /\ walker' = "raised" => job_applications'[applications'[app_i']].status = "Scraped"
    ]_vars

C1_Witness ==
  /\ walker = "raised" /\ error = "NameError" /\ form.submit
  /\ ~Clicked(NavigationControls)
  /\ job_applications[Current].status = "Scraped"
  /\ job_applications[Current].job_details # None

\* C2: no two job_applications rows share a job_url, and an upsert of a link
\* whose job_url already has a row rewrites that row in place: the table does
\* not grow, the row carries the new scrape's data and the loop goes on.
C2_OneRowPerJobUrl ==
  [][/\ \A i \in DOMAIN job_applications : \A j \in DOMAIN job_applications :
          job_applications[i].job_url = job_applications[j].job_url => i = j
     /\ \A i \in DOMAIN job_applications' : \A j \in DOMAIN job_applications' :
          job_applications'[i].job_url = job_applications'[j].job_url => i = j
     /\ \A i \in DOMAIN job_applications :
          (/\ pc = "upsert" /\ link_i <= Len(job_links)
           /\ job_applications[i].job_url = FullLink(job_links[link_i]))
          => /\ Len(job_applications') = Len(job_applications)
             /\ job_applications'[i] =
                  JobUpdateData(scrape_job, FullLink(job_links[link_i]))
             /\ error' = "none" /\ link_i' = link_i + 1
    ]_vars

C2_Witness ==
  /\ cmd = "scrape" /\ pc = "upsert" /\ link_i = 2 /\ scrape_job = 2
  /\ Len(job_applications) = 1
  /\ job_applications[1].scrape_job_id = 2

\* C3: the navigation step clicks Submit and returns when Submit is present,
\* else clicks Review and the final submit and returns when Review is
\* present, else clicks Continue and walks the next page at depth + 1.
C3_NavigationByPriority ==
  [][(pc = "form_nav" /\ pc' # pc) =>
       IF form'.submit
         THEN clicks' = Append(clicks, Act("submit", 0)) /\ walker' = "returned"
       ELSE IF form'.review
         THEN /\ clicks' = clicks \o <<Act("review", 0), Act("final_submit", 0)>>
              /\ walker' = "returned"
       ELSE /\ clicks' = Append(clicks, Act("continue", 0))
            /\ pc' = "form_page" /\ depth' = depth + 1
    ]_vars

\* C4: once _handle_job is over for an eligible application without an
\* Applied marker whose form page is static and offers Submit or Review, and
\* no browser call failed, the application's status is "Applied".
C4_WalkEndsApplied ==
  (/\ cmd = "apply" /\ handled \in {"returned", "raised"}
   /\ applied_tags_count = 0 /\ Clicked({"apply"})
   /\ form # NoPage
   /\ FormPageTitle(form.raw_title) \in static_page_titles
   /\ (form.submit \/ form.review)
   /\ error # "PlaywrightError")
  => job_applications[Current].status = "Applied"

C6_OneFormPagePerPageNumber ==
  [][/\ \A i \in DOMAIN application_form_pages' :
        \A j \in DOMAIN application_form_pages' :
          (/\ application_form_pages'[i].job_application_id
                = application_form_pages'[j].job_application_id
           /\ application_form_pages'[i].page_number
                = application_form_pages'[j].page_number) => i = j
     /\ \A i \in DOMAIN application_form_pages :
          (/\ pc = "form_page" /\ pc' # pc
           /\ application_form_pages[i].job_application_id = Current
           /\ application_form_pages[i].page_number = depth)
          => /\ Len(application_form_pages') = Len(application_form_pages)
             /\ application_form_pages'[i].form_page_title
                  = FormPageTitle(form'.raw_title)
    ]_vars

C6_Witness ==
  /\ Len(application_form_pages) = 1
  /\ application_form_pages[1].form_page_title = <<"Resume">>
  /\ form.raw_title = <<"\n", "Resume", "  ">>

C8_NotEasyApplyIsAHardError ==
  [][(HandleJobStep /\ Ineligible(Current) /\ applied_tags_count' >= 0)
       => /\ handled' = "raised" /\ error' = "ValueError"
          /\ job_applications' = job_applications
          /\ application_form_pages' = application_form_pages
          /\ clicks' = <<>> /\ walker' = "idle" /\ pc' = "finally"
    ]_vars

C8_Witness ==
  /\ cmd = "apply" /\ handled = "raised" /\ error = "ValueError"
  /\ applied_tags_count = 1
  /\ job_applications[Current].status = "Scraped"

\* C9: a browser that was launched is open with no close call for as long
\* as the wrapped function runs, and once the wrapper is left (normal return,
\* raise, or failed context creation) it is closed, by exactly one close call.
C9_BrowserClosedExactlyOnce ==
  /\ func = "running" => (browser = "open" /\ closes = 0)
  /\ browser = "open" => (closes = 0 /\ pc \notin {"idle", "upsert"})
  /\ browser = "closed" => closes = 1
  /\ (pc \in {"idle", "upsert"} /\ browser # "none") => (browser = "closed" /\ closes = 1)

C9_Witness ==
  /\ pc = "idle" /\ browser = "closed" /\ closes = 1
  /\ func = "idle" /\ error = "PlaywrightError"

\* C10: a db_update that finds no row by its match keys while a row with the
\* new record's job_url exists ends without error as an update, and the table
\* does not grow.
C10_ConflictOnCreateBecomesUpdate ==
  [][(/\ db_calls' = db_calls + 1
      /\ Matching(db_rows, db_result'.table[1]) = {}
      /\ \E i \in DOMAIN db_rows :
           db_rows[i].job_url = Merge(db_result'.table[1], db_result'.table[2]).job_url)
       => /\ db_result'.err = "none" /\ db_result'.op = "update"
          /\ Len(db_rows') = Len(db_rows)
    ]_vars

\* the listing ids of the cards whose link is under /jobs/view
ViewIds(cards) ==
  {cards[i].id : i \in {j \in DOMAIN cards : cards[j].kind = "view"}}

\* C11: when get_jobs, started on a store without applications, has returned,
\* job_applications holds exactly one row per distinct listing id among the
\* cards linked under /jobs/view: cards without a link or with another link
\* give no row, cards sharing an id give one; every row is "Scraped" and no
\* two rows share a job_url.
C11_OneScrapedRowPerListing ==
  (cmd = "scrape" /\ pc = "idle" /\ func = "returned" /\ error = "none")
  => /\ Len(job_applications) = Cardinality(ViewIds(job_cards))
     /\ {job_applications[i].job_url : i \in DOMAIN job_applications}
          = {FullLink(id) : id \in ViewIds(job_cards)}
     /\ \A i \in DOMAIN job_applications :
          /\ job_applications[i].status = "Scraped"
          /\ \A j \in DOMAIN job_applications :
               job_applications[i].job_url = job_applications[j].job_url => i = j

C11_Witness ==
  /\ cmd = "scrape" /\ pc = "idle" /\ func = "returned" /\ error = "none"
  /\ Len(job_cards) = MaxCards + 2
  /\ \E i \in DOMAIN job_cards : job_cards[i].kind = "none"
  /\ \E i \in DOMAIN job_cards : \E j \in DOMAIN job_cards :
       i # j /\ job_cards[i].kind = "view" /\ job_cards[i] = job_cards[j]
  /\ Len(job_applications) = 1
  /\ job_applications[1].status = "Scraped"

\* the FormPage rows of application a for page number d
FormPageRows(table, a, d) ==
  {i \in DOMAIN table :
     table[i].job_application_id = a /\ table[i].page_number = d}

\* C12: when _form_recursion meets a page with a static title it leaves
\* exactly one FormPage record for the application and the depth, carrying
\* that title, acts on no field, and stands at the navigation step with the
\* walk still running.
C12_StaticPageOnlyRecordsAndNavigates ==
  [][(/\ pc = "form_page" /\ pc' # pc
      /\ FormPageTitle(form'.raw_title) \in static_page_titles)
     => /\ \E i \in DOMAIN application_form_pages' :
             /\ FormPageRows(application_form_pages', Current, depth) = {i}
             /\ application_form_pages'[i].form_page_title
                  = FormPageTitle(form'.raw_title)
        /\ clicks' = clicks
        /\ pc' = "form_nav" /\ walker' = "running"
    ]_vars

\* the page is handled by the branch that loads the cache and fills fields
DynamicTitle(raw_title) ==
  /\ FormPageTitle(raw_title) # <<"Privacy policy">>
  /\ FormPageTitle(raw_title) \notin static_page_titles

\* C13: on a dynamic page whose FormPage record was saved, with
\* question_cache.json missing or empty, loading the cache raises nothing
\* and binds an empty cache, and the walk is still running afterwards.
C13_MissingOrEmptyCacheContinues ==
  [][(/\ pc = "form_page" /\ pc' # pc
      /\ DynamicTitle(form'.raw_title)
      /\ form'.cache_file \in {"missing", "empty"}
      /\ FormPageRows(application_form_pages', Current, depth) # {})
     => /\ load_cache(form'.cache_file) = [err |-> "none", question_cache |-> "empty"]
        /\ walker' = "running"
    ]_vars

\* the applications handed to apply_to_jobs
Handed == {applications[i] : i \in DOMAIN applications}

\* C14: the apply command hands to apply_to_jobs only rows that are "Scraped"
\* when it starts, _handle_job is entered only for a row that is still
\* "Scraped", and while the command runs no row outside the handed ones and
\* none of the FormPage rows of such an application changes.
C14_AppliedApplicationsAreLeftAlone ==
  [][/\ (pc = "idle" /\ cmd' = "apply" /\ pc' = "launch")
        => \A i \in DOMAIN applications' :
             job_applications[applications'[i]].status = "Scraped"
     /\ HandleJobStep => job_applications[Current].status = "Scraped"
     /\ (cmd = "apply" /\ pc # "idle")
        => /\ \A a \in DOMAIN job_applications :
                a \notin Handed => job_applications'[a] = job_applications[a]
           /\ \A i \in DOMAIN application_form_pages :
                application_form_pages[i].job_application_id \notin Handed
                => application_form_pages'[i] = application_form_pages[i]
    ]_vars

C14_Witness ==
  /\ cmd = "apply" /\ handled = "raised" /\ walker = "raised"
  /\ applications = <<2>>
  /\ job_applications[1].status = "Applied"
  /\ job_applications[2].status = "Scraped"
  /\ \E i \in DOMAIN application_form_pages :
       application_form_pages[i].job_application_id = 1

\* C15: apply_to_jobs moves to the next application only by one position,
\* only when _handle_job has returned and the row it handled is stored as
\* "Applied"; when _handle_job is entered no earlier handling or walk is
\* still running and every application before it in the list is "Applied";
\* the list does not change during the run and only the row of the
\* application being handled is written.
C15_OneApplicationAtATime ==
  [][(cmd = "apply" /\ pc # "idle") =>
       /\ applications' = applications
       /\ app_i' # app_i
          => /\ app_i' = app_i + 1 /\ pc' = "loop"
             /\ handled' = "returned" /\ walker' # "running"
             /\ job_applications'[applications[app_i]].status = "Applied"
       /\ HandleJobStep
          => /\ handled \in {"none", "returned"} /\ walker # "running"
             /\ \A j \in 1..(app_i - 1) :
                  job_applications[applications[j]].status = "Applied"
       /\ \A a \in DOMAIN job_applications :
            job_applications'[a] # job_applications[a]
            => app_i <= Len(applications) /\ a = Current
    ]_vars

C15_Witness ==
  /\ cmd = "apply" /\ pc = "form_page" /\ app_i = 2 /\ Len(applications) = 2
  /\ handled = "running" /\ walker = "running"
  /\ job_applications[applications[1]].status = "Applied"
  /\ job_applications[applications[2]].status = "Scraped"

\* C16: before and after every step of the scrape and apply commands each
\* job_applications row has status "Scraped" or "Applied", and a row that
\* a step adds to the table has status "Scraped".
C16_StatusIsScrapedOrApplied ==
  [][/\ \A i \in DOMAIN job_applications :
          job_applications[i].status \in {"Scraped", "Applied"}
     /\ \A i \in DOMAIN job_applications' :
          /\ job_applications'[i].status \in {"Scraped", "Applied"}
          /\ i \notin DOMAIN job_applications
             => job_applications'[i].status = "Scraped"
    ]_vars

C16_Witness ==
  /\ cmd = "apply" /\ handled = "returned"
  /\ application_form_pages = <<>>
  /\ Len(scrape_jobs) = 1 /\ Len(job_applications) = 1
  /\ job_applications[1].status = "Applied"

\* C17: whenever the navigation step finds neither Submit nor Review, the
\* walk goes on: Continue is clicked, the walker is still running and stands
\* on the next page with depth one higher, whatever the depth was; it has
\* neither returned nor raised.
C17_WalkGoesOnWithoutTerminalControl ==
  [][(pc = "form_nav" /\ pc' # pc /\ ~form'.submit /\ ~form'.review)
     => /\ clicks' = Append(clicks, Act("continue", 0))
        /\ walker' = "running" /\ handled' = "running"
        /\ pc' = "form_page" /\ depth' = depth + 1
    ]_vars

\* C18: when a call of the wrapper has ended, the caller holds the wrapped
\* function's result if that function completed, and holds the very
\* Exception instance the function raised, as a returned value, if it raised
\* an instance of an Exception subclass; what leaves the wrapper as a raise
\* is never an instance of an Exception subclass.
C18_ExceptionsComeBackAsValues ==
  (wrap_pc = "idle" /\ wrap_calls > 0)
  => /\ wrap_func.kind = "return"
        => wrap_out = [kind |-> "returned", value |-> wrap_func.value]
     /\ (wrap_func.kind = "raise" /\ wrap_func.value.cls \in ExceptionClasses)
        => wrap_out = [kind |-> "returned", value |-> wrap_func.value]
     /\ wrap_out.kind = "raised" => wrap_out.value.cls \notin ExceptionClasses

C18_Witness ==
  /\ wrap_pc = "idle" /\ wrap_calls = 2
  /\ wrap_func = [kind |-> "raise", value |-> [cls |-> "KeyError", id |-> 2]]
  /\ wrap_out = [kind |-> "returned", value |-> [cls |-> "KeyError", id |-> 2]]

C20_FormPageRowsUpToDepth ==
  [][(pc = "form_page" /\ pc' # pc)
     => /\ \A d \in 0..depth :
             FormPageRows(application_form_pages', Current, d) # {}
        /\ \E i \in FormPageRows(application_form_pages', Current, depth) :
             application_form_pages'[i].form_page_title
               = FormPageTitle(form'.raw_title)
    ]_vars

\* the controls acted on by the step just taken
NewActs(old, new) == SubSeq(new, Len(old) + 1, Len(new))

\* C21: on a dynamic page whose FormPage record was saved and whose answers
\* are "Yes" or "No", the step that handles the page acts on the labels as
\* the fill loop's rules say and leaves the walk running at the navigation
\* step: no action on an "Upload" label, exactly one click for a "Yes"/"No"
\* pair (the first control for "Yes", the second for "No"), and one fill or
\* select-option for every other label.
C21_FillLoopHandlesEveryLabel ==
  [][(/\ pc = "form_page" /\ pc' # pc
      /\ DynamicTitle(form'.raw_title)
      /\ form'.response \in {"Yes", "No"}
      /\ FormPageRows(application_form_pages', Current, depth) # {})
     => /\ NewActs(clicks, clicks')
             = FillLoop(1, form'.labels, form'.response, <<>>).acts
        /\ \A i \in DOMAIN form'.labels :
             LET acts == NewActs(clicks, clicks')
                 on_i == {k \in DOMAIN acts : acts[k].i = i}
             IN /\ form'.labels[i] = "Upload" => on_i = {}
                /\ form'.labels[i] = "Yes"
                   => \E k \in DOMAIN acts :
                        acts[k] = Act("click", IF form'.response = "Yes"
                                                 THEN i ELSE i + 1)
                /\ form'.labels[i] \notin {"Upload", "Yes", "No"}
                   => \E k \in DOMAIN acts :
                        /\ on_i = {k}
                        /\ acts[k].ctl \in {"fill", "select_option"}
        /\ pc' = "form_nav" /\ walker' = "running"
    ]_vars

\* C22: when get_jobs' loop upserts a link whose row is "Applied", the row
\* is rewritten in place: status "Scraped", company_name, job_title,
\* application_date and job_details None, scrape job the running one; the
\* row is then among those the apply command selects.
C22_RescrapeResetsAppliedRow ==
  [][\A i \in DOMAIN job_applications :
       (/\ pc = "upsert" /\ link_i <= Len(job_links)
        /\ job_applications[i].job_url = FullLink(job_links[link_i])
        /\ job_applications[i].status = "Applied")
       => /\ Len(job_applications') = Len(job_applications)
          /\ job_applications'[i].status = "Scraped"
          /\ job_applications'[i].company_name = None
          /\ job_applications'[i].job_title = None
          /\ job_applications'[i].application_date = None
          /\ job_applications'[i].job_details = None
          /\ job_applications'[i].scrape_job_id = scrape_job
          /\ job_applications'[i].scrape_job = scrape_job
          /\ job_applications'[i].job_url = job_applications[i].job_url
          /\ \E k \in DOMAIN group_scraped_applications_by_platform("LinkedIn")' :
               group_scraped_applications_by_platform("LinkedIn")'[k] = i
    ]_vars

C22_Witness ==
  /\ cmd = "scrape" /\ pc = "upsert" /\ link_i = 2 /\ scrape_job = 2
  /\ Len(job_applications) = 2
  /\ job_applications[1].status = "Scraped"
  /\ job_applications[1].scrape_job_id = 2
  /\ job_applications[2].status = "Applied"

\* C23: when _handle_job or the walker raises for an application, the
\* exception leaves apply_to_jobs at once (the loop position stays, the
\* wrapped function has raised); the finally block then closes the browser
\* once and the command ends with that exception, without writing the
\* store; no later application is handled: those after it are "Scraped",
\* those before it "Applied".
C23_FirstErrorEndsTheRun ==
  [][/\ (cmd = "apply" /\ pc # "idle" /\ handled # "raised" /\ handled' = "raised")
        => /\ error' # "none" /\ func' = "raised"
           /\ pc' = "finally" /\ app_i' = app_i
     /\ (cmd = "apply" /\ pc # "idle" /\ handled = "raised")
        => /\ pc = "finally" /\ pc' = "idle"
           /\ browser' = "closed" /\ closes' = 1
           /\ error' = error /\ app_i' = app_i /\ handled' = handled
           /\ store' = store
     /\ (cmd = "apply" /\ handled = "raised")
        => /\ \A j \in (app_i + 1)..Len(applications) :
                job_applications[applications[j]].status = "Scraped"
           /\ \A j \in 1..(app_i - 1) :
                job_applications[applications[j]].status = "Applied"
    ]_vars

C23_Witness ==
  /\ cmd = "apply" /\ pc = "idle" /\ handled = "raised" /\ error = "ValueError"
  /\ browser = "closed" /\ closes = 1
  /\ app_i = 1 /\ Len(applications) = 2
  /\ job_applications[applications[2]].status = "Scraped"
  /\ job_applications[applications[2]].job_details = None

\* C24: the step that starts get_jobs adds exactly one scrape_jobs row and
\* one linkedin_scrapes row pointing at it, before any browser exists; no
\* other step changes these tables, so the rows stay when the search fails
\* or finds nothing; every job_applications row get_jobs inserts or rewrites
\* carries the id of that scrape job; and every scrape job has exactly one
\* linkedin_scrapes row, so the flag _handle_job reads through an
\* application is the one of the scrape that last wrote the application.
C24_OneScrapeJobPerInvocation ==
  [][/\ (pc = "idle" /\ cmd' = "scrape" /\ pc' = "launch")
        => /\ scrape_jobs' = Append(scrape_jobs, [platform |-> "LinkedIn"])
           /\ Len(linkedin_scrapes') = Len(linkedin_scrapes) + 1
           /\ SubSeq(linkedin_scrapes', 1, Len(linkedin_scrapes)) = linkedin_scrapes
           /\ linkedin_scrapes'[Len(linkedin_scrapes')].scrape_job_id
                = Len(scrape_jobs')
           /\ scrape_job' = Len(scrape_jobs')
           /\ browser' = "none" /\ func' = "idle"
     /\ ~(pc = "idle" /\ cmd' = "scrape" /\ pc' = "launch")
        => scrape_jobs' = scrape_jobs /\ linkedin_scrapes' = linkedin_scrapes
     /\ (cmd = "scrape" /\ pc # "idle")
        => /\ scrape_job = Len(scrape_jobs)
           /\ \A i \in DOMAIN job_applications' :
                (i \notin DOMAIN job_applications
                 \/ job_applications'[i] # job_applications[i])
                => job_applications'[i].scrape_job_id = scrape_job
     /\ \A sj \in DOMAIN scrape_jobs' :
          Cardinality({k \in DOMAIN linkedin_scrapes' :
                         linkedin_scrapes'[k].scrape_job_id = sj}) = 1
     /\ \A i \in DOMAIN job_applications' :
          job_applications'[i].scrape_job_id \in DOMAIN scrape_jobs'
    ]_vars

C24_Witness ==
  /\ cmd = "scrape" /\ pc = "idle" /\ func = "raised"
  /\ error = "PlaywrightError" /\ browser = "closed"
  /\ Len(scrape_jobs) = 2 /\ Len(linkedin_scrapes) = 2
  /\ linkedin_scrapes[2].scrape_job_id = 2 /\ ~linkedin_scrapes[2].easy_apply
  /\ \A i \in DOMAIN job_applications : job_applications[i].scrape_job_id = 1

====
